---- MODULE Spec2Model ----
(***************************************************************************)
(* Job-tracking engine of MinuteTaker: the MinutesFrame component          *)
(* (src/src/pages/MinutesFrame.tsx) reconciling localStorage, the one-shot *)
(* job_status fetch and the Socket.IO push channel                         *)
(* (src/src/api/apiService.ts).                                            *)
(***************************************************************************)
EXTENDS Integers, Sequences, FiniteSets, TLC

\* ---------------------------------------------------------------- bounds
NumJobs == 2            \* job ids are 1..NumJobs
MaxNewJobs == 1         \* calls of handleNewJobCreated in one run

\* ------------------------------------------------------------ data model
NoJob == 0                                  \* a null job id
JobIds == 1..NumJobs

Statuses == {"pending", "processing", "completed", "error"}

\* JobResponse: minutes is TRUE when the minutes payload is present.
JobResponse ==
  {r \in [job_id : JobIds, status : Statuses, minutes : BOOLEAN] :
     r.minutes => r.status = "completed"}

NullData == [job_id |-> NoJob, status |-> "null", minutes |-> FALSE]

\* What the server pushes with processing_complete.
CompletePayloads == {r \in JobResponse : r.status = "completed" /\ r.minutes}
\* What the server pushes with processing_update.
UpdatePayloads == {r \in JobResponse : r.status = "processing"}
\* What the upload hands to handleNewJobCreated as data, when it hands any.
NewJobPayloads ==
  {r \in JobResponse : r.status = "processing" \/ (r.status = "completed" /\ r.minutes)}

\* error state of MinutesFrame
NoError == "null"
FetchFailedMsg == "Failed to load job data. Please try again."
JobErrorMsg == "Error: job error"

\* A localStorage entry: absent (getItem returns null), a JSON text, or a
\* text JSON.parse rejects.
AbsentItem == [tag |-> "absent", val |-> NullData]
GarbageItem == [tag |-> "garbage", val |-> NullData]
stringify(d) == [tag |-> "json", val |-> d]

VARIABLES
  phase,           \* "init" before the effect ran, "mounted", "unmounted"
  lsJobId,         \* localStorage 'lastJobId' (NoJob when absent)
  lsJobData,       \* localStorage 'lastJobData'
  activeJobId, jobData, error, loading,     \* useState of MinutesFrame
  hasCleanup,      \* the mount effect returned joinJobRoom's cleanup
  fetchPending,    \* job id of the fetch in flight, NoJob when none
  conn,            \* socket: "null", "connecting", "up", "down" (dropped)
  updateHandlers,  \* listeners of 'processing_update': their jobId, in order
  completeHandlers,\* listeners of 'processing_complete'
  rejoined,        \* job ids of the rejoin_job messages emitted: sent on this
                   \* connection when conn = "up", buffered for the next otherwise
  joins,           \* job ids of the joinJobRoom calls since the last cleanup
  newJobs,         \* number of handleNewJobCreated calls so far
  tracked,         \* job id of the last handleNewJobCreated call
  lastOp           \* the handler that ran last, and its inputs

stateVars == <<activeJobId, jobData, error, loading>>
storeVars == <<lsJobId, lsJobData>>
sockVars == <<conn, updateHandlers, completeHandlers, rejoined, joins>>
vars == <<phase, lsJobId, lsJobData, activeJobId, jobData, error, loading,
          hasCleanup, fetchPending, conn, updateHandlers,
          completeHandlers, rejoined, joins, newJobs, tracked,
          lastOp>>

Op(name, job, calls) == [op |-> name, job |-> job, calls |-> calls]

\* ----------------------------------------------------------- localStorage
\* The stored pairs a previous session can have left behind.
StoredPairs ==
  {<<NoJob, AbsentItem>>} \cup
  {<<j, AbsentItem>> : j \in JobIds} \cup
  {<<j, GarbageItem>> : j \in JobIds} \cup
  {<<d.job_id, stringify(d)>> : d \in NewJobPayloads \cup CompletePayloads}

\* getLastJobData: JSON.parse throws on a garbage item and the catch
\* returns both fields null.
getLastJobData ==
  IF lsJobData.tag = "garbage"
    THEN [jobId |-> NoJob, jobData |-> NullData]
    ELSE [jobId |-> lsJobId,
          jobData |-> IF lsJobData.tag = "json" THEN lsJobData.val ELSE NullData]

\* The write left out: the stored snapshot is never refreshed.
storeJobData_Never(d, ok) == lsJobData

\* try { localStorage.setItem('lastJobData', JSON.stringify(d)) } catch {}
\* ok is FALSE when setItem throws.
storeJobData(d, ok) == IF ok THEN stringify(d) ELSE lsJobData

\* A state setter of a component that is no longer mounted does nothing.
setState(old, new) == IF phase = "mounted" THEN new ELSE old

\* ------------------------------------------------------------- the socket
\* s.emit('rejoin_job', {job_id}): sent at once on a connected socket,
\* buffered until the socket connects otherwise.
emitRejoin(jobId) == rejoined' = rejoined \cup {jobId}

\* getSocket creates the connection on first use.
getSocket == IF conn = "null" THEN "connecting" ELSE conn

\* s.off(event): every listener of the event is removed.
off(handlers) == <<>>
\* s.on(event, h)
on(handlers, jobId) == Append(handlers, jobId)

\* joinJobRoom without the three s.off calls: the new listeners are added to
\* the ones already registered.
joinJobRoom_NoOff(jobId) ==
  /\ conn' = getSocket
  /\ updateHandlers' = on(updateHandlers, jobId)
  /\ completeHandlers' = on(completeHandlers, jobId)
  /\ emitRejoin(jobId)
  /\ joins' = Append(joins, jobId)

\* joinJobRoom(jobId, onUpdate, onComplete); both callbacks are always given.
joinJobRoom(jobId) ==
  /\ conn' = getSocket
  /\ updateHandlers' = on(off(updateHandlers), jobId)
  /\ completeHandlers' = on(off(completeHandlers), jobId)
  /\ emitRejoin(jobId)
  /\ joins' = Append(joins, jobId)

\* A cleanup that removes only the listeners of the joinJobRoom call that
\* returned it (the first since the socket was last cleared).
cleanup_OwnOnly ==
  /\ updateHandlers' = SelectSeq(updateHandlers, LAMBDA h : h # joins[1])
  /\ completeHandlers' = SelectSeq(completeHandlers, LAMBDA h : h # joins[1])
  /\ joins' = <<>>
  /\ UNCHANGED <<conn, rejoined>>

\* The function joinJobRoom returns.
cleanup ==
  /\ updateHandlers' = off(updateHandlers)
  /\ completeHandlers' = off(completeHandlers)
  /\ joins' = <<>>
  /\ UNCHANGED <<conn, rejoined>>

\* Number of listeners in handlers whose filter lets job_id through.
Matching(handlers, job_id) ==
  Cardinality({i \in 1..Len(handlers) : handlers[i] = job_id})

\* ------------------------------------------------------------------- Init
Init ==
  /\ phase = "init"
  /\ \E p \in StoredPairs : lsJobId = p[1] /\ lsJobData = p[2]
  /\ activeJobId = NoJob
  /\ jobData = NullData
  /\ error = NoError
  /\ loading = FALSE
  /\ hasCleanup = FALSE
  /\ fetchPending = NoJob
  /\ conn = "null"
  /\ updateHandlers = <<>>
  /\ completeHandlers = <<>>
  /\ rejoined = {}
  /\ joins = <<>>
  /\ newJobs = 0
  /\ tracked = NoJob
  /\ lastOp = Op("none", NoJob, 0)

\* ---------------------------------------------------------------- actions
\* Mount with the loading flag raised before the stored id is looked at.
Mount_LoadsFirst ==
  /\ phase = "init"
  /\ phase' = "mounted"
  /\ loading' = TRUE
  /\ LET r == getLastJobData IN
       IF r.jobId # NoJob
         THEN /\ activeJobId' = r.jobId
              /\ IF r.jobData # NullData
                   THEN /\ jobData' = r.jobData
                        /\ UNCHANGED fetchPending
                   ELSE /\ fetchPending' = r.jobId
                        /\ UNCHANGED jobData
              /\ joinJobRoom(r.jobId)
              /\ hasCleanup' = TRUE
         ELSE /\ UNCHANGED <<activeJobId, jobData, fetchPending>>
              /\ UNCHANGED sockVars
              /\ hasCleanup' = FALSE
  /\ lastOp' = Op("mount", getLastJobData.jobId, 0)
  /\ UNCHANGED <<error, storeVars, newJobs, tracked>>

\* The mount effect of MinutesFrame (resumeFromCache).
Mount ==
  /\ phase = "init"
  /\ phase' = "mounted"
  /\ LET r == getLastJobData IN
       IF r.jobId # NoJob
         THEN /\ activeJobId' = r.jobId
              /\ IF r.jobData # NullData
                   THEN /\ jobData' = r.jobData
                        /\ UNCHANGED <<loading, fetchPending>>
                   ELSE /\ loading' = TRUE
                        /\ fetchPending' = r.jobId
                        /\ UNCHANGED jobData
              /\ joinJobRoom(r.jobId)
              /\ hasCleanup' = TRUE
         ELSE /\ UNCHANGED <<activeJobId, jobData, loading, fetchPending>>
              /\ UNCHANGED sockVars
              /\ hasCleanup' = FALSE
  /\ lastOp' = Op("mount", getLastJobData.jobId, 0)
  /\ UNCHANGED <<error, storeVars, newJobs, tracked>>

\* FetchResolved without the .finally of the promise chain: only an accepted
\* or failed result ends loading.
FetchResolved_NoFinally(d, ok) ==
  /\ fetchPending # NoJob
  /\ d.job_id = fetchPending
  /\ fetchPending' = NoJob
  /\ IF d.status = "completed" /\ d.minutes
       THEN /\ jobData' = setState(jobData, d)
            /\ lsJobData' = storeJobData(d, ok)
            /\ loading' = setState(loading, FALSE)
            /\ UNCHANGED error
       ELSE /\ ok
            /\ error' = IF d.status = "error" THEN setState(error, JobErrorMsg) ELSE error
            /\ loading' = IF d.status = "error" THEN setState(loading, FALSE) ELSE loading
            /\ UNCHANGED <<jobData, lsJobData>>
  /\ lastOp' = Op("fetchResolved", d.job_id, 0)
  /\ UNCHANGED <<phase, lsJobId, activeJobId, hasCleanup, sockVars, newJobs, tracked>>

\* The fetch of the mount effect resolved with a 2xx response carrying d.
FetchResolved(d, ok) ==
  /\ fetchPending # NoJob
  /\ d.job_id = fetchPending
  /\ fetchPending' = NoJob
  /\ IF d.status = "completed" /\ d.minutes
       THEN /\ jobData' = setState(jobData, d)
            /\ lsJobData' = storeJobData(d, ok)
            /\ UNCHANGED error
       ELSE /\ ok
            /\ error' = IF d.status = "error" THEN setState(error, JobErrorMsg) ELSE error
            /\ UNCHANGED <<jobData, lsJobData>>
  /\ loading' = setState(loading, FALSE)
  /\ lastOp' = Op("fetchResolved", d.job_id, 0)
  /\ UNCHANGED <<phase, lsJobId, activeJobId, hasCleanup, sockVars, newJobs, tracked>>

\* FetchRejected without the .finally of the promise chain.
FetchRejected_NoFinally ==
  /\ fetchPending # NoJob
  /\ fetchPending' = NoJob
  /\ error' = setState(error, FetchFailedMsg)
  /\ lastOp' = Op("fetchRejected", fetchPending, 0)
  /\ UNCHANGED <<phase, storeVars, activeJobId, jobData, loading, hasCleanup,
                 sockVars, newJobs, tracked>>

\* FetchRejected with a catch that also drops the job data on display.
FetchRejected_ClearsJob ==
  /\ fetchPending # NoJob
  /\ fetchPending' = NoJob
  /\ error' = setState(error, FetchFailedMsg)
  /\ jobData' = setState(jobData, NullData)
  /\ loading' = setState(loading, FALSE)
  /\ lastOp' = Op("fetchRejected", fetchPending, 0)
  /\ UNCHANGED <<phase, storeVars, activeJobId, hasCleanup, sockVars, newJobs, tracked>>

\* The fetch failed: transport failure, or a response that is not ok.
FetchRejected ==
  /\ fetchPending # NoJob
  /\ fetchPending' = NoJob
  /\ error' = setState(error, FetchFailedMsg)
  /\ loading' = setState(loading, FALSE)
  /\ lastOp' = Op("fetchRejected", fetchPending, 0)
  /\ UNCHANGED <<phase, storeVars, activeJobId, jobData, hasCleanup, sockVars,
                 newJobs, tracked>>

\* PushUpdate with an onUpdate that shows the update as the job data.
PushUpdate_Overwrites(d) ==
  /\ conn = "up"
  /\ jobData' = IF Matching(updateHandlers, d.job_id) > 0
                  THEN setState(jobData, d) ELSE jobData
  /\ lastOp' = Op("pushUpdate", d.job_id, Matching(updateHandlers, d.job_id))
  /\ UNCHANGED <<phase, storeVars, activeJobId, error, loading, hasCleanup,
                 fetchPending, sockVars, newJobs, tracked>>

\* The server pushes processing_update carrying d: each listener whose
\* filter matches logs it.
PushUpdate(d) ==
  /\ conn = "up"
  /\ lastOp' = Op("pushUpdate", d.job_id, Matching(updateHandlers, d.job_id))
  /\ UNCHANGED <<phase, storeVars, stateVars, hasCleanup, fetchPending, sockVars,
                 newJobs, tracked>>

\* PushComplete with an onComplete that forgets localStorage.setItem.
PushComplete_NoStore(d, ok) ==
  /\ conn = "up"
  /\ LET n == Matching(completeHandlers, d.job_id) IN
       /\ IF n > 0
            THEN /\ jobData' = setState(jobData, d)
                 /\ UNCHANGED lsJobData
            ELSE /\ ok
                 /\ UNCHANGED <<jobData, lsJobData>>
       /\ lastOp' = Op("pushComplete", d.job_id, n)
  /\ UNCHANGED <<phase, lsJobId, activeJobId, error, loading, hasCleanup,
                 fetchPending, sockVars, newJobs, tracked>>

\* The server pushes processing_complete carrying d: each listener whose
\* filter matches calls onComplete(d).
PushComplete(d, ok) ==
  /\ conn = "up"
  /\ LET n == Matching(completeHandlers, d.job_id) IN
       /\ IF n > 0
            THEN /\ jobData' = setState(jobData, d)
                 /\ lsJobData' = storeJobData(d, ok)
            ELSE /\ ok
                 /\ UNCHANGED <<jobData, lsJobData>>
       /\ lastOp' = Op("pushComplete", d.job_id, n)
  /\ UNCHANGED <<phase, lsJobId, activeJobId, error, loading, hasCleanup,
                 fetchPending, sockVars, newJobs, tracked>>

\* handleNewJobCreated without setError(null).
handleNewJobCreated_KeepsError(jobId, d, okData, okId) ==
  /\ phase = "mounted"
  /\ d # NullData => d.job_id = jobId
  /\ newJobs < MaxNewJobs
  /\ newJobs' = newJobs + 1
  /\ tracked' = jobId
  /\ activeJobId' = jobId
  /\ IF d # NullData
       THEN /\ jobData' = d
            /\ lsJobData' = storeJobData(d, okData)
       ELSE /\ okData
            /\ UNCHANGED <<jobData, lsJobData>>
  /\ IF okId
       THEN /\ lsJobId' = jobId
            /\ joinJobRoom(jobId)
       ELSE /\ UNCHANGED <<lsJobId, sockVars>>
  /\ lastOp' = Op("newJob", jobId, 0)
  /\ UNCHANGED <<phase, error, loading, hasCleanup, fetchPending>>

\* handleNewJobCreated(jobId, data) (trackNewJob); d is NullData when the
\* caller passes no data. okData, okId: the two setItem calls succeed.
handleNewJobCreated(jobId, d, okData, okId) ==
  /\ phase = "mounted"
  /\ d # NullData => d.job_id = jobId
  /\ newJobs < MaxNewJobs
  /\ newJobs' = newJobs + 1
  /\ tracked' = jobId
  /\ activeJobId' = jobId
  /\ error' = NoError
  /\ IF d # NullData
       THEN /\ jobData' = d
            /\ lsJobData' = storeJobData(d, okData)
       ELSE /\ okData
            /\ UNCHANGED <<jobData, lsJobData>>
  /\ IF okId
       THEN /\ lsJobId' = jobId
            /\ joinJobRoom(jobId)
       ELSE \* setItem('lastJobId') throws out of the handler
            /\ UNCHANGED <<lsJobId, sockVars>>
  /\ lastOp' = Op("newJob", jobId, 0)
  /\ UNCHANGED <<phase, loading, hasCleanup, fetchPending>>

\* The dismiss button of the error banner.
DismissError ==
  /\ phase = "mounted"
  /\ error # NoError
  /\ error' = NoError
  /\ lastOp' = Op("dismiss", NoJob, 0)
  /\ UNCHANGED <<phase, storeVars, activeJobId, jobData, loading, hasCleanup,
                 fetchPending, sockVars, newJobs, tracked>>

\* MinutesFrame unmounts: React runs the cleanup the effect returned.
Unmount ==
  /\ phase = "mounted"
  /\ phase' = "unmounted"
  /\ IF hasCleanup THEN cleanup ELSE UNCHANGED sockVars
  /\ lastOp' = Op("unmount", NoJob, 0)
  /\ UNCHANGED <<storeVars, stateVars, hasCleanup, fetchPending, newJobs, tracked>>

\* The socket connects, or reconnects; the 'connect' listener only logs.
Connect ==
  /\ conn \in {"connecting", "down"}
  /\ conn' = "up"
  /\ rejoined' = rejoined      \* the buffered emits are sent
  /\ lastOp' = Op(IF conn = "down" THEN "reconnect" ELSE "connect", NoJob, 0)
  /\ UNCHANGED <<phase, storeVars, stateVars, hasCleanup, fetchPending,
                 updateHandlers, completeHandlers, joins, newJobs, tracked>>

\* A connection attempt fails; the 'connect_error' listener only logs and
\* the socket goes on retrying (the retry budget is not counted here: a
\* socket that gave up is one that never takes Connect again).
ConnectError ==
  /\ conn \in {"connecting", "down"}
  /\ lastOp' = Op("connectError", NoJob, 0)
  /\ UNCHANGED <<phase, storeVars, stateVars, hasCleanup, fetchPending, sockVars,
                 newJobs, tracked>>

\* The connection drops.
Disconnect ==
  /\ conn = "up"
  /\ conn' = "down"
  /\ rejoined' = {}            \* what was sent went to a connection that is gone
  /\ lastOp' = Op("disconnect", NoJob, 0)
  /\ UNCHANGED <<phase, storeVars, stateVars, hasCleanup, fetchPending,
                 updateHandlers, completeHandlers, joins, newJobs, tracked>>

Next ==
  \/ Mount
  \/ \E d \in JobResponse, ok \in BOOLEAN : FetchResolved(d, ok)
  \/ FetchRejected
  \/ \E d \in UpdatePayloads : PushUpdate(d)
  \/ \E d \in CompletePayloads, ok \in BOOLEAN : PushComplete(d, ok)
  \/ \E j \in JobIds, d \in NewJobPayloads \cup {NullData}, okData, okId \in BOOLEAN :
       handleNewJobCreated(j, d, okData, okId)
  \/ DismissError
  \/ Unmount
  \/ Connect
  \/ ConnectError
  \/ Disconnect

Spec == Init /\ [][Next]_vars

\* The fetch promise settles: its continuation is a microtask the event loop
\* runs once the response or the failure is there.
FetchSettles == FetchRejected \/ \E d \in JobResponse, ok \in BOOLEAN : FetchResolved(d, ok)

FairSpec == Spec /\ WF_vars(FetchSettles)


\* ------------------------------------------------------------ properties
Terminal == {"completed", "error"}

\* C1: once handleNewJobCreated(b) has run, a processing_update or
\* processing_complete event carrying a job id other than b leaves jobData,
\* error and the stored snapshot unchanged.
C1_StaleEventIgnored ==
  [][\A d \in CompletePayloads \cup UpdatePayloads, ok \in BOOLEAN :
       (/\ tracked # NoJob
        /\ d.job_id # tracked
        /\ PushComplete(d, ok) \/ PushUpdate(d))
       => UNCHANGED <<jobData, error, lsJobData>>]_vars

\* C2: the result of the mount fetch for job a, arriving after
\* handleNewJobCreated(b) with b # a, changes neither jobData nor error nor
\* the stored snapshot.
C2_LateFetchDropped ==
  [][\A d \in JobResponse, ok \in BOOLEAN :
       (/\ tracked # NoJob
        /\ fetchPending # NoJob
        /\ fetchPending # tracked
        /\ FetchResolved(d, ok) \/ FetchRejected)
       => UNCHANGED <<jobData, error, lsJobData>>]_vars

\* C3: a reconnection of the socket while a job is tracked is eventually
\* followed by a rejoin_job for that job (unless the socket drops again or
\* the component unmounts first).
C3_RejoinAfterReconnect ==
  (lastOp.op = "reconnect" /\ phase = "mounted" /\ activeJobId # NoJob)
    ~> (activeJobId \in rejoined \/ conn # "up" \/ phase # "mounted")

\* C4: once the component has unmounted, no processing_update or
\* processing_complete listener is left on the socket.
C4_NoHandlersAfterUnmount ==
  phase = "unmounted" => updateHandlers = <<>> /\ completeHandlers = <<>>

\* C5: while mounted, listeners are registered iff activeJobId is set, and
\* they filter on activeJobId.
C5_BindingsMatchActiveJob ==
  phase = "mounted" =>
    IF activeJobId = NoJob
      THEN updateHandlers = <<>> /\ completeHandlers = <<>>
      ELSE updateHandlers = <<activeJobId>> /\ completeHandlers = <<activeJobId>>

\* C6: after any sequence of joinJobRoom calls without a cleanup between
\* them, each event has exactly one listener, filtering on the id of the last
\* call, and a delivered event invokes the callback at most once.
C6_OneHandlerSet ==
  /\ joins # <<>> =>
       /\ updateHandlers = <<joins[Len(joins)]>>
       /\ completeHandlers = <<joins[Len(joins)]>>
  /\ lastOp.op \in {"pushUpdate", "pushComplete"} => lastOp.calls <= 1

\* joinJobRoom(j) ran twice in a row and an event for j was then delivered
\* to its callback.
C6_Witness ==
  /\ Len(joins) = 2
  /\ joins[1] = joins[2]
  /\ lastOp = Op("pushComplete", joins[2], 1)

\* C7: the mount effect takes a stored snapshot as jobData without fetching
\* when its status is completed or error; with a job id stored and the
\* snapshot absent or of another status it sets loading and fetches that id.
C7_ResumeFetchesUnlessTerminal ==
  (lastOp.op = "mount" /\ lsJobId # NoJob) =>
    /\ (lsJobData.tag = "json" /\ lsJobData.val.status \in Terminal)
         => jobData = lsJobData.val /\ fetchPending = NoJob /\ ~loading
    /\ (\/ lsJobData.tag = "absent"
        \/ lsJobData.tag = "json" /\ lsJobData.val.status \notin Terminal)
         => loading /\ fetchPending = lsJobId

\* C8: with a job id stored and a snapshot entry JSON.parse rejects, the
\* mount effect still tracks the stored id: activeJobId is that id, loading
\* is set, the fetch is issued and the listeners are bound to it.
C8_CorruptSnapshotKeepsJobId ==
  (lastOp.op = "mount" /\ lsJobId # NoJob /\ lsJobData.tag = "garbage") =>
    /\ activeJobId = lsJobId
    /\ loading
    /\ fetchPending = lsJobId
    /\ updateHandlers = <<lsJobId>>
    /\ completeHandlers = <<lsJobId>>

\* C9: whether or not its localStorage writes fail, handleNewJobCreated(j)
\* ends with activeJobId = j and the listeners bound to j.
C9_NewJobAllOrNothing ==
  lastOp.op = "newJob" =>
    /\ activeJobId = lastOp.job
    /\ updateHandlers = <<lastOp.job>>
    /\ completeHandlers = <<lastOp.job>>

\* The fetch for the active job, while mounted, answers with a status that is
\* neither completed-with-minutes nor error.
StillPendingResult(d, ok) ==
  /\ phase = "mounted"
  /\ fetchPending = activeJobId
  /\ ~(d.status = "completed" /\ d.minutes)
  /\ d.status # "error"
  /\ FetchResolved(d, ok)

\* C10 as stated: such a result changes nothing, loading stays true.
C10_PendingResultKeepsLoading ==
  [][\A d \in JobResponse, ok \in BOOLEAN :
       StillPendingResult(d, ok) => UNCHANGED <<jobData, error, loading>>]_vars

\* C10 amended: such a result leaves jobData, error, activeJobId and the
\* stored pair unchanged, and ends loading.
C10_PendingResultEndsLoading ==
  [][\A d \in JobResponse, ok \in BOOLEAN :
       StillPendingResult(d, ok) =>
         /\ UNCHANGED <<jobData, error, activeJobId, lsJobId, lsJobData>>
         /\ loading
         /\ ~loading']_vars

\* The mount fetch for the still active job has just resolved without a
\* completed payload and without an error.
C10_Witness ==
  /\ lastOp.op = "fetchResolved"
  /\ phase = "mounted"
  /\ newJobs = 0
  /\ lastOp.job = activeJobId
  /\ jobData = NullData
  /\ error = NoError
  /\ ~loading

\* A processing_complete event for the active job is delivered to a listener
\* bound to it, while mounted.
AcceptedComplete(d, ok) ==
  /\ phase = "mounted"
  /\ d.job_id = activeJobId
  /\ Matching(completeHandlers, d.job_id) > 0
  /\ PushComplete(d, ok)

\* C11 as stated: after an accepted processing_complete (storage working)
\* jobData is the payload, loading is false and the stored snapshot is the
\* payload.
C11_CompleteEndsLoading ==
  [][\A d \in CompletePayloads :
       AcceptedComplete(d, TRUE) =>
         jobData' = d /\ ~loading' /\ lsJobData' = stringify(d)]_vars

\* C11 amended: after an accepted processing_complete jobData is the payload,
\* the stored snapshot is the payload when the write succeeds and is left as
\* it was when the write fails, and loading is not touched.
C11_CompleteReplacesJob ==
  [][\A d \in CompletePayloads, ok \in BOOLEAN :
       AcceptedComplete(d, ok) =>
         /\ jobData' = d
         /\ lsJobData' = (IF ok THEN stringify(d) ELSE lsJobData)
         /\ UNCHANGED <<loading, activeJobId, error, lsJobId>>]_vars

\* A processing_complete for the active job was accepted while the mount
\* fetch is still in flight: the payload is shown and stored, loading is on.
C11_Witness ==
  /\ lastOp = Op("pushComplete", activeJobId, 1)
  /\ phase = "mounted"
  /\ fetchPending = activeJobId
  /\ loading
  /\ jobData \in CompletePayloads
  /\ jobData.job_id = activeJobId
  /\ lsJobData = stringify(jobData)

\* C12: while mounted, every update that sets jobData (a processing_complete
\* delivered to a listener, a completed fetch result, handleNewJobCreated
\* with data) and whose setItem succeeds leaves the stored snapshot equal to
\* jobData; a completed fetch result also ends with loading false.
C12_WriteThrough ==
  [][/\ \A d \in CompletePayloads :
          (phase = "mounted" /\ Matching(completeHandlers, d.job_id) > 0
             /\ PushComplete(d, TRUE))
          => jobData' = d /\ lsJobData' = stringify(jobData')
     /\ \A d \in JobResponse :
          (phase = "mounted" /\ d.status = "completed" /\ d.minutes
             /\ FetchResolved(d, TRUE))
          => /\ jobData' = d
             /\ lsJobData' = stringify(jobData')
             /\ ~loading'
     /\ \A j \in JobIds, d \in NewJobPayloads, okId \in BOOLEAN :
          handleNewJobCreated(j, d, TRUE, okId)
          => jobData' = d /\ lsJobData' = stringify(jobData')]_vars

\* Resume with a stored id and no snapshot, then the fetch answered
\* completed: the job is shown, loading is off, the snapshot is stored.
C12_Witness ==
  /\ lastOp = Op("fetchResolved", activeJobId, 0)
  /\ phase = "mounted"
  /\ newJobs = 0
  /\ jobData \in CompletePayloads
  /\ jobData.job_id = activeJobId
  /\ ~loading
  /\ lsJobId = activeJobId
  /\ lsJobData = stringify(jobData)

\* C13: when, while mounted, the fetch for the active job fails, error is
\* the (non-empty) failure message and jobData, activeJobId and the stored
\* pair are what they were.
C13_FetchFailureKeepsJob ==
  [][(phase = "mounted" /\ fetchPending = activeJobId /\ FetchRejected)
       => /\ error' = FetchFailedMsg
          /\ error' # NoError
          /\ UNCHANGED <<jobData, activeJobId, lsJobId, lsJobData>>]_vars

\* The fetch for the active job has just failed while a job pushed in the
\* meantime is on display.
C13_Witness ==
  /\ lastOp = Op("fetchRejected", activeJobId, 0)
  /\ phase = "mounted"
  /\ error = FetchFailedMsg
  /\ jobData # NullData
  /\ fetchPending = NoJob

\* C14: with both setItem calls succeeding, handleNewJobCreated(j, d) ends
\* with activeJobId = j, error cleared, the stored id j, jobData = d when d
\* was given (and as before when not), the previous listeners gone, one
\* listener per event filtering on j and a rejoin_job for j emitted.
C14_TrackNewJob ==
  [][\A j \in JobIds, d \in NewJobPayloads \cup {NullData} :
       handleNewJobCreated(j, d, TRUE, TRUE) =>
         /\ activeJobId' = j
         /\ error' = NoError
         /\ lsJobId' = j
         /\ jobData' = (IF d # NullData THEN d ELSE jobData)
         /\ updateHandlers' = <<j>>
         /\ completeHandlers' = <<j>>
         /\ j \in rejoined']_vars

\* handleNewJobCreated(j) has just replaced a session that tracked another
\* job, after that job's fetch had settled.
C14_Witness ==
  /\ lastOp.op = "newJob"
  /\ Len(joins) = 2
  /\ joins[1] # joins[2]
  /\ activeJobId = joins[2]
  /\ lsJobId = joins[2]
  /\ completeHandlers = <<joins[2]>>
  /\ joins[2] \in rejoined
  /\ error = NoError
  /\ fetchPending = NoJob
  /\ ~loading

\* C15: with no job id stored, the mount effect leaves activeJobId and
\* jobData null and loading false, issues no fetch, binds no listener and
\* does not even create the socket.
C15_EmptyCacheResume ==
  (lastOp.op = "mount" /\ lsJobId = NoJob) =>
    /\ activeJobId = NoJob
    /\ jobData = NullData
    /\ ~loading
    /\ fetchPending = NoJob
    /\ updateHandlers = <<>>
    /\ completeHandlers = <<>>
    /\ rejoined = {}
    /\ conn = "null"

\* The component has just mounted on an empty localStorage.
C15_Witness ==
  /\ lastOp.op = "mount"
  /\ phase = "mounted"
  /\ lsJobId = NoJob
  /\ lsJobData = AbsentItem
  /\ activeJobId = NoJob

\* C16: a processing_update delivered to a listener while jobData holds a
\* completed or error snapshot leaves jobData, error and the stored snapshot
\* unchanged.
C16_UpdateKeepsTerminal ==
  [][\A d \in UpdatePayloads :
       (/\ Matching(updateHandlers, d.job_id) > 0
        /\ jobData.status \in Terminal
        /\ PushUpdate(d))
       => UNCHANGED <<jobData, error, lsJobData>>]_vars

\* A processing_update for the job on display, which is completed, has just
\* been delivered to its listener.
C16_Witness ==
  /\ lastOp = Op("pushUpdate", activeJobId, 1)
  /\ phase = "mounted"
  /\ jobData \in CompletePayloads
  /\ jobData.job_id = activeJobId

\* The cleanup returned by the mount effect's joinJobRoom(a) runs after
\* handleNewJobCreated has called joinJobRoom(b).
FirstCleanupAfterSecondJoin ==
  /\ hasCleanup
  /\ Len(joins) = 2
  /\ Unmount

\* C17 as stated: that cleanup leaves the listeners of joinJobRoom(b)
\* registered.
C17_CleanupKeepsLaterHandlers ==
  [][FirstCleanupAfterSecondJoin =>
       /\ updateHandlers' = <<joins[2]>>
       /\ completeHandlers' = <<joins[2]>>]_vars

\* C17 amended: that cleanup removes every processing_update and
\* processing_complete listener of the socket, those of joinJobRoom(b)
\* included.
C17_CleanupRemovesAllHandlers ==
  [][FirstCleanupAfterSecondJoin =>
       /\ updateHandlers = <<joins[2]>>
       /\ completeHandlers = <<joins[2]>>
       /\ updateHandlers' = <<>>
       /\ completeHandlers' = <<>>]_vars

\* The mount effect joined a, handleNewJobCreated joined b # a, and the
\* mount effect's cleanup has just run.
C17_Witness ==
  /\ lastOp.op = "unmount"
  /\ hasCleanup
  /\ Cardinality(rejoined) = 2
  /\ tracked \in rejoined
  /\ updateHandlers = <<>>
  /\ completeHandlers = <<>>

\* C18: whenever jobData is set, the job id it carries is activeJobId.
C18_JobDataOfActiveJob ==
  jobData # NullData => jobData.job_id = activeJobId

\* C19: whenever both localStorage entries hold a value, the stored
\* snapshot carries the stored job id.
C19_StoredPairConsistent ==
  (lsJobId # NoJob /\ lsJobData.tag = "json") => lsJobData.val.job_id = lsJobId

\* C20: while the component is mounted, loading is on only while the mount
\* fetch is outstanding, and, the fetch settling, loading on is followed by
\* loading off (or by the unmount, which discards the flag).
C20_LoadingTerminates ==
  /\ []((phase = "mounted" /\ loading) => fetchPending # NoJob)
  /\ ((phase = "mounted" /\ loading) ~> (~loading \/ phase = "unmounted"))

\* The mount fetch settled after the tracked job had been switched to a job
\* whose data is on display: loading is off.
C20_Witness ==
  /\ lastOp.op \in {"fetchResolved", "fetchRejected"}
  /\ phase = "mounted"
  /\ newJobs = 1
  /\ lastOp.job # activeJobId
  /\ jobData.job_id = activeJobId
  /\ fetchPending = NoJob
  /\ ~loading

====
